---------------------------- MODULE Spec2Model ----------------------------
(***************************************************************************)
(* Media_Manager: the media discovery engine (photo_scan.py), the          *)
(* face-match pipeline (recognition.py) and the worker threads that        *)
(* main.py starts for them.                                                *)
(*                                                                         *)
(* Strings are sequences of one-character strings, so that lower(),        *)
(* endswith(), the `in` substring test and sorted() are computed as        *)
(* Python computes them.  A float percentage p/t*100 is kept as the exact  *)
(* fraction <<p * 100, t>>.  Timestamps and elapsed times are left out.    *)
(***************************************************************************)
EXTENDS Integers, Sequences, FiniteSets, TLC

(***************************************************************************)
(* Bounds of the model.                                                    *)
(***************************************************************************)
\* directories in a generated tree
MaxDirs == 3
\* calls of run_photo_scan in one behaviour
MaxScans == 2
\* length of the argument lists of merge_media_lists
MaxLen == 2
\* target photos selected for one face-match
MaxTargets == 3

(***************************************************************************)
(* Strings.                                                                *)
(***************************************************************************)
\* the upper-case ASCII letters and their lower case

lower_table ==
    ("A" :> "a") @@ ("B" :> "b") @@ ("C" :> "c") @@ ("D" :> "d") @@ ("E" :> "e") @@ ("F" :> "f") @@
    ("G" :> "g") @@ ("H" :> "h") @@ ("I" :> "i") @@ ("J" :> "j") @@ ("K" :> "k") @@ ("L" :> "l") @@
    ("M" :> "m") @@ ("N" :> "n") @@ ("O" :> "o") @@ ("P" :> "p") @@ ("Q" :> "q") @@ ("R" :> "r") @@
    ("S" :> "s") @@ ("T" :> "t") @@ ("U" :> "u") @@ ("V" :> "v") @@ ("W" :> "w") @@ ("X" :> "x") @@
    ("Y" :> "y") @@ ("Z" :> "z")

\* ord() of the printable ASCII characters (without the quote, the backslash
\* and the backquote, which no name of the model holds)
ord_table ==
    (" " :> 32) @@ ("!" :> 33) @@ ("#" :> 35) @@ ("$" :> 36) @@ ("%" :> 37) @@
    ("&" :> 38) @@ ("'" :> 39) @@ ("(" :> 40) @@ (")" :> 41) @@ ("*" :> 42) @@ ("+" :> 43) @@
    ("," :> 44) @@ ("-" :> 45) @@ ("." :> 46) @@ ("/" :> 47) @@ ("0" :> 48) @@ ("1" :> 49) @@
    ("2" :> 50) @@ ("3" :> 51) @@ ("4" :> 52) @@ ("5" :> 53) @@ ("6" :> 54) @@ ("7" :> 55) @@
    ("8" :> 56) @@ ("9" :> 57) @@ (":" :> 58) @@ (";" :> 59) @@ ("<" :> 60) @@ ("=" :> 61) @@
    (">" :> 62) @@ ("?" :> 63) @@ ("@" :> 64) @@ ("A" :> 65) @@ ("B" :> 66) @@ ("C" :> 67) @@
    ("D" :> 68) @@ ("E" :> 69) @@ ("F" :> 70) @@ ("G" :> 71) @@ ("H" :> 72) @@ ("I" :> 73) @@
    ("J" :> 74) @@ ("K" :> 75) @@ ("L" :> 76) @@ ("M" :> 77) @@ ("N" :> 78) @@ ("O" :> 79) @@
    ("P" :> 80) @@ ("Q" :> 81) @@ ("R" :> 82) @@ ("S" :> 83) @@ ("T" :> 84) @@ ("U" :> 85) @@
    ("V" :> 86) @@ ("W" :> 87) @@ ("X" :> 88) @@ ("Y" :> 89) @@ ("Z" :> 90) @@ ("[" :> 91) @@
    ("]" :> 93) @@ ("^" :> 94) @@ ("_" :> 95) @@ ("a" :> 97) @@
    ("b" :> 98) @@ ("c" :> 99) @@ ("d" :> 100) @@ ("e" :> 101) @@ ("f" :> 102) @@ ("g" :> 103) @@
    ("h" :> 104) @@ ("i" :> 105) @@ ("j" :> 106) @@ ("k" :> 107) @@ ("l" :> 108) @@ ("m" :> 109) @@
    ("n" :> 110) @@ ("o" :> 111) @@ ("p" :> 112) @@ ("q" :> 113) @@ ("r" :> 114) @@ ("s" :> 115) @@
    ("t" :> 116) @@ ("u" :> 117) @@ ("v" :> 118) @@ ("w" :> 119) @@ ("x" :> 120) @@ ("y" :> 121) @@
    ("z" :> 122) @@ ("{" :> 123) @@ ("|" :> 124) @@ ("}" :> 125) @@ ("~" :> 126)

\* str.lower(), one character
Lower(c) == IF c \in DOMAIN lower_table THEN lower_table[c] ELSE c

\* str.lower()
LowerStr(s) == [i \in 1..Len(s) |-> Lower(s[i])]

\* str.endswith(suffix)
EndsWith(s, suf) ==
    /\ Len(suf) <= Len(s)
    /\ SubSeq(s, Len(s) - Len(suf) + 1, Len(s)) = suf

\* str.endswith(tuple of suffixes)
EndsWithAny(s, sufs) == \E suf \in sufs : EndsWith(s, suf)

\* sub in s
Contains(s, sub) ==
    \E i \in 1..(Len(s) - Len(sub) + 1) : SubSeq(s, i, i + Len(sub) - 1) = sub

\* a < b for two str: by code point, a proper prefix first
RECURSIVE StrLess(_, _)
StrLess(a, b) ==
    IF b = <<>> THEN FALSE
    ELSE IF a = <<>> THEN TRUE
    ELSE IF ord_table[Head(a)] # ord_table[Head(b)]
         THEN ord_table[Head(a)] < ord_table[Head(b)]
    ELSE StrLess(Tail(a), Tail(b))

\* sorted(set of str)
RECURSIVE Sorted(_)
Sorted(S) ==
    IF S = {} THEN <<>>
    ELSE LET m == CHOOSE x \in S : \A y \in S \ {x} : StrLess(x, y)
         IN  <<m>> \o Sorted(S \ {m})

\* set(list)
ToSet(s) == {s[i] : i \in 1..Len(s)}

\* os.path.join(a, b) for a relative b, POSIX
Join(a, b) ==
    IF a = <<>> THEN b
    ELSE IF a[Len(a)] = "/" THEN a \o b
    ELSE a \o <<"/">> \o b

(***************************************************************************)
(* photo_scan.py: the classification tables and the path classifier.       *)
(***************************************************************************)
image_extensions ==
    { <<".","j","p","g">>,
       <<".","j","p","e","g">>,
       <<".","p","n","g">>,
       <<".","h","e","i","c">>,
       <<".","b","m","p">>,
       <<".","g","i","f">>,
       <<".","t","i","f">>,
       <<".","t","i","f","f">>,
       <<".","h","e","i","f">>,
       <<".","r","a","w">>,
       <<".","a","r","w">>,
       <<".","c","r","2">>,
       <<".","n","e","f">>,
       <<".","o","r","f">>,
       <<".","s","r","2">>,
       <<".","d","n","g">>,
       <<".","p","s","d">>,
       <<".","j","p","2">> }

video_extensions ==
    { <<".","m","p","4">>,
       <<".","m","o","v">>,
       <<".","a","v","i">>,
       <<".","m","k","v">>,
       <<".","w","m","v">>,
       <<".","f","l","v">>,
       <<".","w","e","b","m">>,
       <<".","3","g","p">>,
       <<".","m","p","e","g">>,
       <<".","m","p","g">>,
       <<".","m","4","v">>,
       <<".","m","t","s">>,
       <<".","m","2","t","s">>,
       <<".","t","s">>,
       <<".","o","g","v">>,
       <<".","d","i","v","x">> }

skip_folders ==
    << <<"T","E","C","H","T","O","O","L","S">>,
       <<".","A","p","p","l","i","c","a","t","i","o","n","s">>,
       <<".","T","r","a","s","h">>,
       <<"c","o","m",".","a","p","p","l","e">>,
       <<".","s","p","o","t","l","i","g","h","t","-","V","1","0","0">>,
       <<".","f","s","e","v","e","n","t","s","d">>,
       <<".","d","o","c","u","m","e","n","t","R","e","v","i","s","i","o","n","s","-","V","1","0","0">>,
       <<"$","R","e","c","y","l","e",".","B","i","n">>,
       <<"P","r","o","g","r","a","m"," ","F","i","l","e","s">>,
       <<"P","r","o","g","r","a","m"," ","F","i","l","e","s"," ","(","x","8","6",")">>,
       <<"A","p","p","D","a","t","a">>,
       <<"T","e","m","p">>,
       <<"P","r","o","g","r","a","m","D","a","t","a">>,
       <<"_","M","A","C","O","S","X">>,
       <<".","c","a","c","h","e">>,
       <<".","c","o","n","f","i","g">>,
       <<".","l","o","c","a","l">>,
       <<"L","i","b","r","a","r","y">>,
       <<"n","o","d","e","_","m","o","d","u","l","e","s">>,
       <<"v","e","n","v">>,
       <<".","v","e","n","v">>,
       <<".","g","i","t">>,
       <<".","s","v","n">>,
       <<".","h","g">>,
       <<".","O","n","e","D","r","i","v","e","T","e","m","p">>,
       <<"O","n","e","D","r","i","v","e"," ","-"," ","P","e","r","s","o","n","a","l">>,
       <<"R","e","c","y","c","l","e",".","B","i","n">>,
       <<".","t","h","u","m","b","n","a","i","l","s">>,
       <<"l","o","s","t","+","f","o","u","n","d">>,
       <<"$","W","i","n","R","E","A","g","e","n","t">> >>

\* the junk suffixes, duplicates removed by set()
junk_extensions ==
    { <<".","a","p","k">>,
       <<".","a","r","i","a","2">>,
       <<".","b","a","k">>,
       <<".","c","a","b">>,
       <<".","c","r","d","o","w","n","l","o","a","d">>,
       <<".","d","b">>,
       <<".","d","b","-","j","o","u","r","n","a","l">>,
       <<".","d","e","s","k","t","o","p",".","i","n","i">>,
       <<".","d","l","l">>,
       <<".","d","s","_","s","t","o","r","e">>,
       <<".","e","x","e">>,
       <<".","g","x">>,
       <<".","i","c","l","o","u","d">>,
       <<".","i","d","x">>,
       <<".","i","n","i">>,
       <<".","i","p","a">>,
       <<".","l","n","k">>,
       <<".","l","o","c","k">>,
       <<".","l","o","g">>,
       <<".","l","o","g","1">>,
       <<".","l","o","g","2">>,
       <<".","m","s","i">>,
       <<".","n","f","o">>,
       <<".","o","b","b">>,
       <<".","o","l","d">>,
       <<".","p","a","r","t">>,
       <<".","p","l","i","s","t">>,
       <<".","s","f","v">>,
       <<".","s","r","t">>,
       <<".","s","u","b">>,
       <<".","s","w","p">>,
       <<".","s","y","s">>,
       <<".","t","a","r">>,
       <<".","t","h","u","m","b","n","a","i","l","s">>,
       <<".","t","h","u","m","b","s",".","d","b">>,
       <<".","t","m","p">>,
       <<".","t","o","r","r","e","n","t">>,
       <<".","t","r","a","s","h","i","n","f","o">>,
       <<".","x","z">>,
       <<".","z","i","p">> }

junk_extensions_lower == {LowerStr(ext) : ext \in junk_extensions}

should_skip_dir(dir_path) ==
    \E i \in 1..Len(skip_folders) :
        Contains(LowerStr(dir_path), LowerStr(skip_folders[i]))

is_junk_file(file_name) == EndsWithAny(LowerStr(file_name), junk_extensions_lower)

(***************************************************************************)
(* The state.                                                              *)
(***************************************************************************)
VARIABLES
    fs,             \* the directory tree: path |-> [dirs, files], as os.walk lists it
    catalog_file,   \* photo_folder.json
    history_file,   \* scan_history.json
    log,            \* the messages given to the log sink
    scans,          \* calls of run_photo_scan so far
    runs,           \* per finished call: its path, how it ended, the catalog it left
    th,             \* per worker thread: the frames of run_photo_scan and scan_media
    m_old, m_new, m_out,    \* merge_media_lists: arguments and results
    fm              \* the frames of _face_match_thread and of the functions it calls

vars == <<fs, catalog_file, history_file, log, scans, runs, th, m_old, m_new, m_out, fm>>

\* threads _scan_media_thread that the handler scan_media of main.py has started
MaxThreads == 2
Threads == 1..MaxThreads

\* the list a JSON file or a frame holds
List(v) == [t |-> "list", v |-> v]
\* a JSON value that is no list: a number
Number == [t |-> "num", v |-> <<>>]

\* a frame before run_photo_scan or scan_media is entered
IdleThread ==
    [pc |-> "idle", scan_path |-> <<>>, progress_callback |-> FALSE,
     walk |-> <<>>, visited |-> <<>>, all_files |-> <<>>,
     total |-> 0, processed |-> 0,
     found_images |-> <<>>, found_videos |-> <<>>, progress |-> <<>>,
     existing_media |-> [images |-> List(<<>>), videos |-> List(<<>>)],
     merged_images |-> <<>>, merged_videos |-> <<>>, history |-> <<>>]

\* scan_media(root_path, log, progress_callback) entered
EnterScanMedia(frame, root_path, sink) ==
    [frame EXCEPT !.pc = "walk", !.scan_path = root_path, !.progress_callback = sink,
                  !.walk = <<root_path>>, !.visited = <<>>, !.all_files = <<>>,
                  !.total = 0, !.processed = 0,
                  !.found_images = <<>>, !.found_videos = <<>>, !.progress = <<>>]

(***************************************************************************)
(* Directory trees.  Directory 0 is the root; the odd directories lie in   *)
(* the root and the even ones in directory 1, listed in the order of the   *)
(* indices: 0/1/2 is a chain, and every further directory a sibling.       *)
(***************************************************************************)
Parent(i) == (i - 1) % 2

SeqOfSet(S) ==
    LET RECURSIVE build(_)
        build(R) == IF R = {} THEN <<>>
                    ELSE LET m == CHOOSE x \in R : \A y \in R : x <= y
                         IN  <<m>> \o build(R \ {m})
    IN  build(S)

Kids(i) == SeqOfSet({j \in 1..(MaxDirs - 1) : Parent(j) = i})

RECURSIVE TreePath(_, _, _)
TreePath(rootp, names, i) ==
    IF i = 0 THEN rootp ELSE Join(TreePath(rootp, names, Parent(i)), names[i])

Tree(rootp, names, lists) ==
    LET dirs == 0..(MaxDirs - 1)
    IN  [p \in {TreePath(rootp, names, i) : i \in dirs} |->
            LET i == CHOOSE j \in dirs : TreePath(rootp, names, j) = p
            IN  [dirs  |-> [k \in 1..Len(Kids(i)) |-> names[Kids(i)[k]]],
                 files |-> lists[i]]]

\* names a directory can have: none of skip_folders in it; one in another
\* case; one inside a longer name
DirNames == { <<"p","i","c","s">>, <<".","G","I","T">>, <<"m","y","T","e","m","p">> }

\* paths a tree can be rooted at: the second has "Library" in it
RootPaths == { <<"/","m">>, <<"/","L","i","b","r","a","r","y","/","u">> }

\* file listings of a directory: empty; an image, a video, a junk file;
\* an unclassified file, a junk file with an image suffix in it, an image
Listings ==
    { <<>>,
      << <<"p",".","j","p","g">>, <<"c",".","M","P","4">>, <<"t",".","d","b">> >>,
      << <<"n",".","t","x","t">>, <<"a",".","j","p","g",".","t","m","p">>,
         <<"P",".","J","P","G">> >> }

\* the names the siblings of a directory have are distinct
DistinctSiblings(names) ==
    \A i, j \in DOMAIN names : (i # j /\ Parent(i) = Parent(j)) => names[i] # names[j]

Trees ==
    { Tree(rootp, names, lists) :
        rootp \in RootPaths,
        names \in {n \in [1..(MaxDirs - 1) -> DirNames] : DistinctSiblings(n)},
        lists \in [0..(MaxDirs - 1) -> Listings] }

(***************************************************************************)
(* photo_scan.py: scan_media.                                              *)
(***************************************************************************)
\* SubdirsToWalk without `dirs[:] = []`
SubdirsToWalkUnpruned(root) ==
    [k \in 1..Len(fs[root].dirs) |-> Join(root, fs[root].dirs[k])]

\* lines 54-57: the directories os.walk descends into after the loop body
SubdirsToWalk(root) ==
    IF should_skip_dir(root) THEN <<>>
    ELSE [k \in 1..Len(fs[root].dirs) |-> Join(root, fs[root].dirs[k])]

\* lines 54-59: what the loop body adds to all_files for one directory
FilesToAdd(root) ==
    IF should_skip_dir(root) THEN <<>>
    ELSE [k \in 1..Len(fs[root].files) |-> <<root, fs[root].files[k]>>]

\* one iteration of `for root, dirs, files in os.walk(root_path)`
WalkDir(t) ==
    /\ th[t].pc = "walk"
    /\ th[t].walk # <<>>
    /\ LET root == Head(th[t].walk)
       IN  th' = [th EXCEPT ![t].visited = Append(@, root),
                            ![t].all_files = @ \o FilesToAdd(root),
                            ![t].walk = SubdirsToWalk(root) \o Tail(@)]
    /\ UNCHANGED <<fs, catalog_file, history_file, log, scans, runs, m_old, m_new, m_out, fm>>

\* os.walk is exhausted: total = len(all_files), processed = 0
WalkEnd(t) ==
    /\ th[t].pc = "walk"
    /\ th[t].walk = <<>>
    /\ th' = [th EXCEPT ![t].pc = "classify",
                        ![t].total = Len(th[t].all_files),
                        ![t].processed = 0]
    /\ UNCHANGED <<fs, catalog_file, history_file, log, scans, runs, m_old, m_new, m_out, fm>>

\* (processed / total) * 100, as a fraction
Percent(processed, total) == [num |-> processed * 100, den |-> total]

\* lines 66-67, 80-82: the values the progress sink gets for one file
ProgressFor(file, processed, total, sink) ==
    IF is_junk_file(file) \/ ~sink THEN <<>>
    ELSE <<Percent(processed, total)>>

\* ImagesFor with file.endswith in place of lower_file.endswith
ImagesForCaseSensitive(root, file) ==
    IF is_junk_file(file) THEN <<>>
    ELSE IF EndsWithAny(file, image_extensions) THEN <<Join(root, file)>>
    ELSE <<>>

\* lines 66-72: what one file adds to found_images
ImagesFor(root, file) ==
    IF is_junk_file(file) THEN <<>>
    ELSE IF EndsWithAny(LowerStr(file), image_extensions) THEN <<Join(root, file)>>
    ELSE <<>>

\* lines 66-74: what one file adds to found_videos
VideosFor(root, file) ==
    IF is_junk_file(file) THEN <<>>
    ELSE IF EndsWithAny(LowerStr(file), image_extensions) THEN <<>>
    ELSE IF EndsWithAny(LowerStr(file), video_extensions) THEN <<Join(root, file)>>
    ELSE <<>>

\* lines 77-78: the log line of every 1000th file that is not junk
ScanLogFor(file, processed) ==
    IF ~is_junk_file(file) /\ processed % 1000 = 0 THEN <<"[SCAN] Processed">> ELSE <<>>

\* one iteration of `for root, file in all_files`
ProcessFile(t) ==
    /\ th[t].pc = "classify"
    /\ th[t].processed < th[t].total
    /\ LET processed == th[t].processed + 1
           root == th[t].all_files[processed][1]
           file == th[t].all_files[processed][2]
       IN  /\ th' = [th EXCEPT
                      ![t].processed = processed,
                      ![t].found_images = @ \o ImagesFor(root, file),
                      ![t].found_videos = @ \o VideosFor(root, file),
                      ![t].progress = @ \o ProgressFor(file, processed, th[t].total,
                                                       th[t].progress_callback)]
           /\ log' = log \o ScanLogFor(file, processed)
    /\ UNCHANGED <<fs, catalog_file, history_file, scans, runs, m_old, m_new, m_out, fm>>

\* return found_images, found_videos
ScanReturn(t) ==
    /\ th[t].pc = "classify"
    /\ th[t].processed = th[t].total
    /\ th' = [th EXCEPT ![t].pc = "scanned"]
    /\ UNCHANGED <<fs, catalog_file, history_file, log, scans, runs, m_old, m_new, m_out, fm>>

\* the files absent, nothing merged, no face-match
NoFiles == [kind |-> "missing", images |-> List(<<>>), videos |-> List(<<>>)]
NoHistory == [kind |-> "missing", records |-> <<>>]
NoMerge ==
    /\ m_old = <<>>
    /\ m_new = <<>>
    /\ m_out = [applied |-> FALSE, ab |-> <<>>, ba |-> <<>>, abb |-> <<>>]
NoFaceMatch == fm = [pc |-> "idle"]

\* scan_media called on the root of a tree, with a progress sink or with none
InitCrawl ==
    /\ fs \in Trees
    /\ \E root \in RootPaths, sink \in BOOLEAN :
          /\ root \in DOMAIN fs
          /\ th = [t \in Threads |->
                     IF t = 1 THEN EnterScanMedia(IdleThread, root, sink) ELSE IdleThread]
    /\ catalog_file = NoFiles
    /\ history_file = NoHistory
    /\ log = <<>>
    /\ scans = 0
    /\ runs = <<>>
    /\ NoMerge
    /\ NoFaceMatch

NextCrawl == WalkDir(1) \/ WalkEnd(1) \/ ProcessFile(1) \/ ScanReturn(1)

SpecCrawl == InitCrawl /\ [][NextCrawl]_vars

(***************************************************************************)
(* photo_scan.py: the catalog, the scan history and run_photo_scan.        *)
(*                                                                         *)
(* A JSON file is "missing", "garbage" (json.load raises JSONDecodeError), *)
(* "truncated" (opened with "w" and not yet written: unparsable too),      *)
(* "nonobject"/"object" for the catalog (valid JSON that is no object, an  *)
(* object) and "array"/"nonarray" for the history.                         *)
(***************************************************************************)
\* a key the JSON object does not have
Absent == [t |-> "absent", v |-> <<>>]

\* data.get(key, [])
Get(value) == IF value.t = "absent" THEN List(<<>>) ELSE value

\* load_existing_media that reads both lists from the key "images"
load_existing_media_one_key(file) ==
    IF file.kind = "missing" THEN [images |-> List(<<>>), videos |-> List(<<>>)]
    ELSE IF file.kind = "object"
         THEN [images |-> Get(file.images), videos |-> Get(file.images)]
    ELSE [images |-> List(<<>>), videos |-> List(<<>>)]

load_existing_media(file) ==
    IF file.kind = "missing" THEN [images |-> List(<<>>), videos |-> List(<<>>)]
    ELSE IF file.kind = "object"
         THEN [images |-> Get(file.images), videos |-> Get(file.videos)]
    \* json.load or data.get raised: except Exception
    ELSE [images |-> List(<<>>), videos |-> List(<<>>)]

\* merge_media_lists without the set: old_list + new_list
merge_media_lists_concat(old_list, new_list) == old_list \o new_list

\* merge_media_lists without sorted(): list(combined), in some order of the set
merge_media_lists_unsorted(old_list, new_list) ==
    LET s == Sorted(ToSet(old_list) \cup ToSet(new_list))
    IN  [i \in 1..Len(s) |-> s[Len(s) + 1 - i]]

merge_media_lists(old_list, new_list) == Sorted(ToSet(old_list) \cup ToSet(new_list))

\* set(old_list) raises TypeError: old_list is not iterable
MergeRaises(old) == old.t # "list"

\* what run_photo_scan leaves in `runs` when it ends
RunRecord(t, outcome, catalog) ==
    [thread |-> t, path |-> th[t].scan_path, outcome |-> outcome, catalog |-> catalog]

\* RunStart that opens the catalog for writing before the directory test
RunStartOpensFirst(t, scan_path) ==
    /\ th[t].pc \in {"idle", "returned", "raised"}
    /\ scans < MaxScans
    /\ scans' = scans + 1
    /\ catalog_file' = [kind |-> "truncated", images |-> List(<<>>), videos |-> List(<<>>)]
    /\ IF scan_path \notin DOMAIN fs
       THEN /\ log' = Append(log, "Invalid directory path. Please try again.")
            /\ th' = [th EXCEPT ![t] = [IdleThread EXCEPT !.pc = "returned",
                                                          !.scan_path = scan_path]]
            /\ runs' = Append(runs, [thread |-> t, path |-> scan_path,
                                     outcome |-> "invalid", catalog |-> catalog_file])
       ELSE /\ log' = Append(log, "Scanning path")
            /\ th' = [th EXCEPT ![t] = EnterScanMedia(IdleThread, scan_path, TRUE)]
            /\ runs' = runs
    /\ UNCHANGED <<fs, history_file, m_old, m_new, m_out, fm>>

\* run_photo_scan(scan_path, log, progress_callback) is called: lines 131-138
RunStart(t, scan_path) ==
    /\ th[t].pc \in {"idle", "returned", "raised"}
    /\ scans < MaxScans
    /\ scans' = scans + 1
    /\ IF scan_path \notin DOMAIN fs        \* not os.path.isdir(scan_path)
       THEN /\ log' = Append(log, "Invalid directory path. Please try again.")
            /\ th' = [th EXCEPT ![t] = [IdleThread EXCEPT !.pc = "returned",
                                                          !.scan_path = scan_path]]
            /\ runs' = Append(runs, [thread |-> t, path |-> scan_path,
                                     outcome |-> "invalid", catalog |-> catalog_file])
       ELSE /\ log' = Append(log, "Scanning path")
            /\ th' = [th EXCEPT ![t] = EnterScanMedia(IdleThread, scan_path, TRUE)]
            /\ runs' = runs
    /\ UNCHANGED <<fs, catalog_file, history_file, m_old, m_new, m_out, fm>>

\* scan_media has returned: lines 140-149, the summary and load_existing_media
RunLoad(t) ==
    /\ th[t].pc = "scanned"
    /\ log' = Append(log, "Scan Complete:")
    /\ th' = [th EXCEPT ![t].pc = "merge",
                        ![t].existing_media = load_existing_media(catalog_file)]
    /\ UNCHANGED <<fs, catalog_file, history_file, scans, runs, m_old, m_new, m_out, fm>>

\* lines 150-151
RunMerge(t) ==
    /\ th[t].pc = "merge"
    /\ LET existing == th[t].existing_media
       IN  IF MergeRaises(existing.images) \/ MergeRaises(existing.videos)
           THEN /\ th' = [th EXCEPT ![t].pc = "raised"]
                /\ runs' = Append(runs, RunRecord(t, "raised", catalog_file))
           ELSE /\ th' = [th EXCEPT
                           ![t].pc = "open",
                           ![t].merged_images =
                               merge_media_lists(existing.images.v, th[t].found_images),
                           ![t].merged_videos =
                               merge_media_lists(existing.videos.v, th[t].found_videos)]
                /\ runs' = runs
    /\ UNCHANGED <<fs, catalog_file, history_file, log, scans, m_old, m_new, m_out, fm>>

\* line 153: open(output_json, "w") truncates the file
RunOpen(t) ==
    /\ th[t].pc = "open"
    /\ catalog_file' = [kind |-> "truncated", images |-> List(<<>>), videos |-> List(<<>>)]
    /\ th' = [th EXCEPT ![t].pc = "dump"]
    /\ UNCHANGED <<fs, history_file, log, scans, runs, m_old, m_new, m_out, fm>>

\* lines 154-156: json.dump, the file is closed, the log line
RunDump(t) ==
    /\ th[t].pc = "dump"
    /\ catalog_file' = [kind |-> "object", images |-> List(th[t].merged_images),
                                           videos |-> List(th[t].merged_videos)]
    /\ log' = Append(log, "Media paths saved")
    /\ th' = [th EXCEPT ![t].pc = "log_scan"]
    /\ UNCHANGED <<fs, history_file, scans, runs, m_old, m_new, m_out, fm>>

\* log_scan, lines 105-113: the record of this scan
log_data(path, images, videos) ==
    [scan_path |-> path, num_images |-> Len(images), num_videos |-> Len(videos)]

\* log_scan that starts from an empty history whatever the file holds
ReadHistoryEmpty(file) == <<>>

\* log_scan, lines 116-123: the history read back; only JSONDecodeError is caught
ReadHistory(file) == IF file.kind = "array" THEN file.records ELSE <<>>

\* log_scan, lines 105-125: the history is read and the record appended;
\* history.append raises AttributeError when the JSON value is no array
LogScanRead(t) ==
    /\ th[t].pc = "log_scan"
    /\ IF history_file.kind = "nonarray"
       THEN /\ th' = [th EXCEPT ![t].pc = "raised"]
            /\ runs' = Append(runs, RunRecord(t, "raised", catalog_file))
       ELSE /\ th' = [th EXCEPT
                       ![t].pc = "history_open",
                       ![t].history = Append(ReadHistory(history_file),
                                             log_data(th[t].scan_path, th[t].found_images,
                                                      th[t].found_videos))]
            /\ runs' = runs
    /\ UNCHANGED <<fs, catalog_file, history_file, log, scans, m_old, m_new, m_out, fm>>

\* log_scan, line 127: open(history_file, "w") truncates the file
LogScanOpen(t) ==
    /\ th[t].pc = "history_open"
    /\ history_file' = [kind |-> "truncated", records |-> <<>>]
    /\ th' = [th EXCEPT ![t].pc = "history_dump"]
    /\ UNCHANGED <<fs, catalog_file, log, scans, runs, m_old, m_new, m_out, fm>>

\* log_scan, line 128: json.dump; log_scan and run_photo_scan return
LogScanDump(t) ==
    /\ th[t].pc = "history_dump"
    /\ history_file' = [kind |-> "array", records |-> th[t].history]
    /\ th' = [th EXCEPT ![t].pc = "returned"]
    /\ runs' = Append(runs, RunRecord(t, "ok", catalog_file))
    /\ UNCHANGED <<fs, catalog_file, log, scans, m_old, m_new, m_out, fm>>

\* the process is killed while run_photo_scan is running
Crash ==
    /\ \E t \in Threads : th[t].pc \notin {"idle", "returned", "raised", "dead"}
    /\ th' = [t \in Threads |-> [th[t] EXCEPT !.pc = "dead"]]
    /\ UNCHANGED <<fs, catalog_file, history_file, log, scans, runs, m_old, m_new, m_out, fm>>

\* the trees run_photo_scan is run on: rooted at /m, the first subdirectory
\* named pics, every directory with the same listing
RunTrees ==
    { Tree(<<"/","m">>, names, [i \in 0..(MaxDirs - 1) |-> l]) :
        names \in {n \in [1..(MaxDirs - 1) -> DirNames] :
                      DistinctSiblings(n) /\ n[1] = <<"p","i","c","s">>},
        l \in Listings \ {<<>>} }

\* the paths run_photo_scan is called with: the root, its first subdirectory,
\* and a path that is no directory
NotADir == <<"/","m","/","p",".","j","p","g">>
ScanPaths == { <<"/","m">>, <<"/","m","/","p","i","c","s">>, NotADir }

\* paths a catalog written by an earlier scan holds
OldImages == << <<"/","m","/","p",".","j","p","g">>, <<"/","o","/","q",".","p","n","g">> >>
OldVideos == << <<"/","o","/","v",".","m","o","v">> >>

\* photo_folder.json before the first scan
CatalogFiles ==
    { NoFiles,
      [kind |-> "garbage", images |-> List(<<>>), videos |-> List(<<>>)],
      [kind |-> "nonobject", images |-> List(<<>>), videos |-> List(<<>>)],
      [kind |-> "object", images |-> List(OldImages), videos |-> List(OldVideos)],
      [kind |-> "object", images |-> List(OldImages), videos |-> Absent],
      [kind |-> "object", images |-> Number, videos |-> List(OldVideos)] }

\* scan_history.json before the first scan
HistoryFiles ==
    { NoHistory,
      [kind |-> "garbage", records |-> <<>>],
      [kind |-> "nonarray", records |-> <<>>],
      [kind |-> "array", records |-> <<log_data(<<"/","o">>, OldImages, OldVideos)>>] }

InitRun ==
    /\ fs \in RunTrees
    /\ catalog_file \in CatalogFiles
    /\ history_file \in HistoryFiles
    /\ th = [t \in Threads |-> IdleThread]
    /\ log = <<>>
    /\ scans = 0
    /\ runs = <<>>
    /\ NoMerge
    /\ NoFaceMatch

\* the steps of run_photo_scan in thread t
RunStep(t) ==
    \/ \E scan_path \in ScanPaths : RunStart(t, scan_path)
    \/ WalkDir(t)
    \/ WalkEnd(t)
    \/ ProcessFile(t)
    \/ ScanReturn(t)
    \/ RunLoad(t)
    \/ RunMerge(t)
    \/ RunOpen(t)
    \/ RunDump(t)
    \/ LogScanRead(t)
    \/ LogScanOpen(t)
    \/ LogScanDump(t)

\* run_photo_scan called again and again, one call at a time
NextRun == RunStep(1)

SpecRun == InitRun /\ [][NextRun]_vars

\* the same, and the process may be killed
NextCrash == RunStep(1) \/ Crash

SpecCrash == InitRun /\ [][NextCrash]_vars

\* main.py, scan_media: every click starts a thread _scan_media_thread that
\* calls run_photo_scan; nothing keeps two of them apart
InitConc ==
    /\ fs \in RunTrees
    /\ catalog_file \in {NoFiles,
                         [kind |-> "object", images |-> List(OldImages),
                                             videos |-> List(OldVideos)]}
    /\ history_file = NoHistory
    /\ th = [t \in Threads |-> IdleThread]
    /\ log = <<>>
    /\ scans = 0
    /\ runs = <<>>
    /\ NoMerge
    /\ NoFaceMatch

NextConc == \E t \in Threads : RunStep(t)

SpecConc == InitConc /\ [][NextConc]_vars

(***************************************************************************)
(* merge_media_lists on its own: the arguments are drawn, the function is  *)
(* applied.                                                                *)
(***************************************************************************)
\* paths to merge: a name, a longer name it is a prefix of, an upper-case name
MergePaths == { <<"a">>, <<"a","b">>, <<"B">> }

SeqsUpTo(n, S) == UNION {[1..k -> S] : k \in 0..n}

InitMerge ==
    /\ m_old \in SeqsUpTo(MaxLen, MergePaths)
    /\ m_new \in SeqsUpTo(MaxLen, MergePaths)
    /\ m_out = [applied |-> FALSE, ab |-> <<>>, ba |-> <<>>, abb |-> <<>>]
    /\ fs = [p \in {} |-> 0]
    /\ catalog_file = NoFiles
    /\ history_file = NoHistory
    /\ th = [t \in Threads |-> IdleThread]
    /\ log = <<>>
    /\ scans = 0
    /\ runs = <<>>
    /\ NoFaceMatch

\* merge(old, new), merge(new, old) and merge(merge(old, new), new)
ApplyMerge ==
    /\ ~m_out.applied
    /\ m_out' = [applied |-> TRUE,
                 ab  |-> merge_media_lists(m_old, m_new),
                 ba  |-> merge_media_lists(m_new, m_old),
                 abb |-> merge_media_lists(merge_media_lists(m_old, m_new), m_new)]
    /\ UNCHANGED <<fs, catalog_file, history_file, log, scans, runs, th, m_old, m_new, fm>>

NextMerge == ApplyMerge

SpecMerge == InitMerge /\ [][NextMerge]_vars

(***************************************************************************)
(* recognition.py and main.py, _face_match_thread.                         *)
(*                                                                         *)
(* face_recognition is an outside library: a photo is what it sees in the  *)
(* file, [readable, faces], an encoding is a number and the distance of    *)
(* two encodings is given in tenths.                                       *)
(***************************************************************************)
\* face_recognition.face_distance([encA], encB)[0], in tenths
face_distance(encA, encB) ==
    IF encA >= encB THEN 2 * (encA - encB) ELSE 2 * (encB - encA)

\* the default threshold=0.6 of _face_match_thread, in tenths
threshold == 6

compute_distance(encA, encB) == face_distance(encA, encB)

is_match(encA, encB, thr) == compute_distance(encA, encB) <= thr

\* the photos a target can be: one face, two faces, no face, unreadable
TargetPhotos ==
    { [readable |-> TRUE, faces |-> <<0>>],
      [readable |-> TRUE, faces |-> <<0, 9>>],
      [readable |-> TRUE, faces |-> <<>>],
      [readable |-> FALSE, faces |-> <<>>] }

\* what face_recognition sees in a candidate file, by its name: a.jpg has a
\* face at distance 0.4 of the target face 0, b.PNG two faces, the second at
\* distance 0.6, f.jpeg a face far from it, u.bmp cannot be read
CandidatePhoto(name) ==
    IF name = <<"a",".","j","p","g">> THEN [readable |-> TRUE, faces |-> <<2>>]
    ELSE IF name = <<"b",".","P","N","G">> THEN [readable |-> TRUE, faces |-> <<7, 3>>]
    ELSE IF name = <<"f",".","j","p","e","g">> THEN [readable |-> TRUE, faces |-> <<7>>]
    ELSE [readable |-> FALSE, faces |-> <<>>]

\* listings of the source folder and of its subdirectory
SourceListings ==
    { <<>>,
      << <<"n",".","t","x","t">>, <<"c",".","w","e","b","p">> >>,
      << <<"a",".","j","p","g">> >>,
      << <<"f",".","j","p","e","g">>, <<"a",".","j","p","g">>, <<"b",".","P","N","G">>,
         <<"u",".","b","m","p">> >> }

\* the source folder /s with one subdirectory d
SourceTrees ==
    { (<<"/","s">> :> [dirs |-> << <<"d">> >>, files |-> top]) @@
      (<<"/","s","/","d">> :> [dirs |-> <<>>, files |-> sub]) :
        top \in SourceListings, sub \in SourceListings }

\* the names in the folder Matched before the scan
MatchedFolders ==
    { {}, { <<"a",".","j","p","g">> },
      { <<"a",".","j","p","g">>, <<"a","_","1",".","j","p","g">> } }

\* load_face_embedding that returns the encodings of all the faces
load_face_embedding_all(photo) ==
    IF ~photo.readable THEN [raised |-> TRUE, enc |-> <<>>, count |-> 0]
    ELSE [raised |-> FALSE, enc |-> photo.faces, count |-> Len(photo.faces)]

\* load_face_embedding: "raise", or (encoding or None, number of faces)
load_face_embedding(photo) ==
    IF ~photo.readable THEN [raised |-> TRUE, enc |-> <<>>, count |-> 0]
    ELSE IF photo.faces = <<>> THEN [raised |-> FALSE, enc |-> <<>>, count |-> 0]
    ELSE [raised |-> FALSE, enc |-> <<photo.faces[1]>>, count |-> Len(photo.faces)]

\* main.py lines 170-174: the thread is started with the targets, the source
\* folder and the folder Matched
InitMatch ==
    /\ fs \in SourceTrees
    /\ \E targets \in SeqsUpTo(MaxTargets, TargetPhotos) \ {<<>>},
          existing \in MatchedFolders :
          fm = [pc |-> "build", targets |-> targets, i |-> 0, encs |-> <<>>,
                source_folder |-> <<"/","s">>, image_files |-> <<>>, total_files |-> 0,
                existing |-> existing,
                matched |-> [n \in existing |-> "old"],
                log |-> <<>>, progress |-> <<>>]
    /\ catalog_file = NoFiles
    /\ history_file = NoHistory
    /\ th = [t \in Threads |-> IdleThread]
    /\ log = <<>>
    /\ scans = 0
    /\ runs = <<>>
    /\ NoMerge

\* build_target_encodings: one iteration of `for p in target_paths`
BuildTarget ==
    /\ fm.pc = "build"
    /\ fm.i < Len(fm.targets)
    /\ LET r == load_face_embedding(fm.targets[fm.i + 1])
       IN  fm' = [fm EXCEPT
                   !.i = @ + 1,
                   !.encs = IF r.raised THEN @ ELSE @ \o r.enc,
                   !.log = Append(@, IF r.raised THEN "[FaceMatch] Error loading target"
                                     ELSE IF r.enc = <<>>
                                          THEN "[FaceMatch] No face found in target image"
                                     ELSE "[FaceMatch] Loaded target face")]
    /\ UNCHANGED <<fs, catalog_file, history_file, log, scans, runs, th, m_old, m_new, m_out>>

\* build_target_encodings returns; main.py lines 186-188
BuildReturn ==
    /\ fm.pc = "build"
    /\ fm.i = Len(fm.targets)
    /\ fm' = IF fm.encs = <<>>
             THEN [fm EXCEPT !.pc = "done",
                             !.log = Append(@, "[FaceMatch] No valid targets faces found.")]
             ELSE [fm EXCEPT !.pc = "gather"]
    /\ UNCHANGED <<fs, catalog_file, history_file, log, scans, runs, th, m_old, m_new, m_out>>

\* the suffixes of line 46
candidate_extensions ==
    { <<".","j","p","g">>, <<".","j","p","e","g">>, <<".","p","n","g">>,
      <<".","b","m","p">>, <<".","w","e","b","p",":">>, <<".","t","i","f","f">> }

\* lines 44-47: os.walk(source_folder), the files with a candidate suffix
RECURSIVE GatherImages(_)
GatherImages(stack) ==
    IF stack = <<>> THEN <<>>
    ELSE LET root == Head(stack)
             here == SelectSeq([k \in 1..Len(fs[root].files) |-> <<root, fs[root].files[k]>>],
                               LAMBDA rf : EndsWithAny(LowerStr(rf[2]), candidate_extensions))
             subdirs == [k \in 1..Len(fs[root].dirs) |-> Join(root, fs[root].dirs[k])]
         IN  [k \in 1..Len(here) |-> Join(here[k][1], here[k][2])]
             \o GatherImages(subdirs \o Tail(stack))

\* scan_and_copy_matches, lines 43-52; with no image it returns, and the
\* thread goes on with main.py lines 201-202
Gather ==
    /\ fm.pc = "gather"
    /\ LET image_files == GatherImages(<<fm.source_folder>>)
       IN  fm' = IF Len(image_files) = 0
                 THEN [fm EXCEPT !.pc = "done",
                                 !.log = @ \o <<"[FaceMatch] No imnages found in source older.",
                                                "[FaceMatch] Completed.">>,
                                 !.progress = Append(@, [num |-> 100, den |-> 1])]
                 ELSE [fm EXCEPT !.pc = "loop",
                                 !.image_files = image_files,
                                 !.total_files = Len(image_files)]
    /\ UNCHANGED <<fs, catalog_file, history_file, log, scans, runs, th, m_old, m_new, m_out>>

\* line 54: `for idx, img_path in enumerate(img_path)` reads the local
\* img_path before it is bound: UnboundLocalError, raised outside the try of
\* line 55, leaves scan_and_copy_matches; main.py lines 204-205 log it.
\* Lines 55-88 never run.
LoopEnumerate ==
    /\ fm.pc = "loop"
    /\ fm' = [fm EXCEPT !.pc = "done", !.log = Append(@, "[FaceMatch] Fatal error")]
    /\ UNCHANGED <<fs, catalog_file, history_file, log, scans, runs, th, m_old, m_new, m_out>>

NextMatch == BuildTarget \/ BuildReturn \/ Gather \/ LoopEnumerate

SpecMatch == InitMatch /\ [][NextMatch]_vars

(***************************************************************************)
(* Claims about scan_media.                                                *)
(***************************************************************************)
\* a skip-substring occurs in the path, whatever the case of the letters
MatchesSkipSubstring(p) ==
    \E i \in 1..Len(skip_folders) :
        \E k \in 1..(Len(p) - Len(skip_folders[i]) + 1) :
            \A c \in 1..Len(skip_folders[i]) :
                Lower(p[k + c - 1]) = Lower(skip_folders[i][c])

\* directory p lies below directory q
IsBelow(p, q) ==
    /\ Len(p) > Len(q)
    /\ SubSeq(p, 1, Len(q)) = q
    /\ (q[Len(q)] = "/" \/ p[Len(q) + 1] = "/")

\* the directories whose path matches
SkipMatched == {q \in DOMAIN fs : MatchesSkipSubstring(q)}

\* the descendants of the directories whose path matches
BelowSkipped == {p \in DOMAIN fs : \E q \in SkipMatched : IsBelow(p, q)}

FilesIn(p) == {Join(p, fs[p].files[k]) : k \in 1..Len(fs[p].files)}

\* C1: when scan_media returns, no file of a directory whose path matches a
\* skip-substring, or of a descendant of one, is in found_images or
\* found_videos, and os.walk has yielded no descendant of such a directory.
C1_SkippedSubtreesAbsent ==
    \A t \in Threads :
        th[t].pc = "scanned" =>
            LET below == BelowSkipped
                files == UNION {FilesIn(p) : p \in SkipMatched \cup below}
            IN  /\ files \cap (ToSet(th[t].found_images) \cup ToSet(th[t].found_videos)) = {}
                /\ below \cap ToSet(th[t].visited) = {}

\* scan_media has returned images, from a tree with a skipped directory that
\* holds an image file and has a subdirectory with files
C1_Witness ==
    /\ th[1].pc = "scanned"
    /\ th[1].found_images # <<>>
    /\ \E q \in DOMAIN fs :
          /\ q \in ToSet(th[1].visited)
          /\ MatchesSkipSubstring(q)
          /\ \E k \in 1..Len(fs[q].files) :
                EndsWithAny(LowerStr(fs[q].files[k]), image_extensions)
          /\ \E p \in DOMAIN fs : IsBelow(p, q) /\ fs[p].files # <<>>

\* a <= b for two percentages
PercentLeq(a, b) == a.num * b.den <= b.num * a.den

\* C2: as claimed: once scan_media has returned from a tree with files, the
\* values its progress sink got are non-decreasing and the last one is 100.
C2_ProgressEndsAt100 ==
    \A t \in Threads :
        (th[t].pc = "scanned" /\ th[t].progress_callback /\ th[t].total > 0) =>
            LET p == th[t].progress
            IN  /\ \A i \in 1..(Len(p) - 1) : PercentLeq(p[i], p[i + 1])
                /\ p # <<>>
                /\ p[Len(p)].num = 100 * p[Len(p)].den

(***************************************************************************)
(* Claims about run_photo_scan and merge_media_lists.                      *)
(***************************************************************************)
\* C6: as claimed: whatever photo_folder.json and scan_history.json hold,
\* a call of run_photo_scan on a directory never raises to its caller.
C6_CorruptStateTolerated ==
    \A i \in 1..Len(runs) : runs[i].outcome # "raised"

\* C7: as claimed: when the process is killed during run_photo_scan, the
\* catalog file is complete (the previous content or the new one), never
\* truncated.
C7_AtomicPersist ==
    (\E t \in Threads : th[t].pc = "dead") => catalog_file.kind # "truncated"

\* thread t is between reading the catalog and having written it
InLoadMergePersist(t) == th[t].pc \in {"merge", "open", "dump"}

\* the paths a scan found are in the catalog file
FoundIsInCatalog(t) ==
    /\ ToSet(th[t].found_images) \subseteq ToSet(catalog_file.images.v)
    /\ ToSet(th[t].found_videos) \subseteq ToSet(catalog_file.videos.v)

\* C8 (second half): once the scans have returned, the catalog holds what
\* each of them found.
C8_NoLostUpdate ==
    (\A t \in Threads : th[t].pc = "returned") => \A t \in Threads : FoundIsInCatalog(t)

\* C8: as claimed: no two scans are in the load-merge-persist section at the
\* same time, and once the scans have returned the catalog holds what each
\* of them found.
C8_SingleWriter ==
    /\ \A t1, t2 \in Threads :
          (t1 # t2) => ~(InLoadMergePersist(t1) /\ InLoadMergePersist(t2))
    /\ C8_NoLostUpdate

\* a < b, by the first position where a and b differ
LexLess(a, b) ==
    \/ /\ Len(a) < Len(b)
       /\ \A i \in 1..Len(a) : a[i] = b[i]
    \/ \E k \in 1..Len(a) :
          /\ k <= Len(b)
          /\ \A i \in 1..(k - 1) : a[i] = b[i]
          /\ ord_table[a[k]] < ord_table[b[k]]

\* s is strictly increasing: sorted and without duplicates
StrictlySorted(s) == \A i \in 1..(Len(s) - 1) : LexLess(s[i], s[i + 1])

\* C9: merge(merge(old, new), new) = merge(old, new); merge(old, new) and
\* merge(new, old) hold the same paths; merge(old, new) is the union of its
\* arguments, sorted and without duplicates.
C9_MergeIdempotentCommutative ==
    m_out.applied =>
        /\ m_out.abb = m_out.ab
        /\ ToSet(m_out.ab) = ToSet(m_out.ba)
        /\ ToSet(m_out.ab) = ToSet(m_old) \cup ToSet(m_new)
        /\ StrictlySorted(m_out.ab)

\* merged: two lists that share a path and hold duplicates, more than one
\* path in the result
C9_Witness ==
    /\ m_out.applied
    /\ ToSet(m_old) \cap ToSet(m_new) # {}
    /\ ToSet(m_old) # ToSet(m_new)
    /\ Len(m_out.ab) >= 2
    /\ Len(m_old) + Len(m_new) > Len(m_out.ab) + 1

\* C10: when run_photo_scan has completed twice in a row on the same path,
\* the catalog after the second run is the catalog after the first, and its
\* lists hold no path twice.
C10_RescanIdentical ==
    \A i \in 1..(Len(runs) - 1) :
        (/\ runs[i].path = runs[i + 1].path
         /\ runs[i].outcome = "ok"
         /\ runs[i + 1].outcome = "ok") =>
            /\ runs[i + 1].catalog = runs[i].catalog
            /\ StrictlySorted(runs[i + 1].catalog.images.v)
            /\ StrictlySorted(runs[i + 1].catalog.videos.v)

\* two completed runs on the same directory, which found images that the
\* catalog did not hold before and left paths of an earlier scan in it
C10_Witness ==
    /\ Len(runs) = 2
    /\ runs[1].path = runs[2].path
    /\ runs[1].outcome = "ok"
    /\ runs[2].outcome = "ok"
    /\ th[1].found_images # <<>>
    /\ ToSet(OldImages) \subseteq ToSet(catalog_file.images.v)
    /\ ~(ToSet(th[1].found_images) \subseteq ToSet(OldImages))

(***************************************************************************)
(* Claims about the face-match scan.                                       *)
(***************************************************************************)
\* os.path.basename
Basename(path) ==
    LET cut == {k \in 1..Len(path) : path[k] = "/"}
        last == IF cut = {} THEN 0 ELSE CHOOSE k \in cut : \A j \in cut : j <= k
    IN  SubSeq(path, last + 1, Len(path))

\* the file name with "_1" before its extension
WithSuffix1(name) ==
    LET dots == {k \in 2..Len(name) : name[k] = "."}
        dot == IF dots = {} THEN Len(name) + 1 ELSE CHOOSE k \in dots : \A j \in dots : j <= k
    IN  SubSeq(name, 1, dot - 1) \o <<"_","1">> \o SubSeq(name, dot, Len(name))

\* some face of the candidate is within the threshold of some target encoding
HasMatch(path) ==
    LET photo == CandidatePhoto(Basename(path))
    IN  /\ photo.readable
        /\ \E e \in 1..Len(photo.faces), k \in 1..Len(fm.encs) :
              is_match(fm.encs[k], photo.faces[e], threshold)

\* the names in the folder Matched that are copies of the candidate
CopiesOf(path) == {n \in DOMAIN fm.matched : fm.matched[n] = path}

\* the candidates that lines 44-47 gather from the source folder
Candidates == ToSet(GatherImages(<<fm.source_folder>>))

C4_MatchIsCopied ==
    (fm.pc = "done" /\ fm.encs # <<>>) =>
        \A c \in Candidates :
            HasMatch(c) =>
                \E n \in {Basename(c), WithSuffix1(Basename(c))} : CopiesOf(c) = {n}

\* C5: as claimed: a scan with candidates ends Completed: the line
\* "[FaceMatch] Completed scanning." is logged once, after a progress value
\* for every candidate, and nothing fatal is logged.
C5_ScanCompletes ==
    (fm.pc = "done" /\ fm.encs # <<>> /\ Candidates # {}) =>
        /\ Cardinality({k \in 1..Len(fm.log) :
                           fm.log[k] = "[FaceMatch] Completed scanning."}) = 1
        /\ Len(fm.progress) >= fm.total_files
        /\ \A k \in 1..Len(fm.log) : fm.log[k] # "[FaceMatch] Fatal error"

(***************************************************************************)
(* Claims about the classification of file names.                          *)
(***************************************************************************)
\* the name, in lower case, ends with one of the suffixes
HasSuffix(name, suffixes) ==
    \E suf \in suffixes :
        /\ Len(suf) <= Len(name)
        /\ \A i \in 1..Len(suf) : Lower(name[Len(name) - Len(suf) + i]) = Lower(suf[i])

\* the class of a file name: junk first, then image, then video
ClassOf(name) ==
    IF HasSuffix(name, junk_extensions) THEN "junk"
    ELSE IF HasSuffix(name, image_extensions) THEN "image"
    ELSE IF HasSuffix(name, video_extensions) THEN "video"
    ELSE "unclassified"

\* the paths of the files of all_files that have the class
PathsOfClass(t, class) ==
    {Join(th[t].all_files[k][1], th[t].all_files[k][2]) :
        k \in {j \in 1..Len(th[t].all_files) : ClassOf(th[t].all_files[j][2]) = class}}

\* C11: when scan_media returns, found_images holds the files whose name has
\* no junk suffix and has an image suffix, found_videos those with no junk
\* and no image suffix and a video suffix; a file with a junk suffix and an
\* unclassified file are in neither.
C11_ClassificationJunkFirst ==
    \A t \in Threads :
        th[t].pc = "scanned" =>
            /\ ToSet(th[t].found_images) = PathsOfClass(t, "image")
            /\ ToSet(th[t].found_videos) = PathsOfClass(t, "video")
            /\ Len(th[t].found_images) = Cardinality(PathsOfClass(t, "image"))
            /\ Len(th[t].found_videos) = Cardinality(PathsOfClass(t, "video"))

\* scan_media has returned after files of all four classes, one of them a
\* junk file with an image suffix inside its name, one an upper-case image
C11_Witness ==
    /\ th[1].pc = "scanned"
    /\ \A class \in {"junk", "image", "video", "unclassified"} :
          PathsOfClass(1, class) # {}
    /\ \E k \in 1..Len(th[1].all_files) :
          /\ ClassOf(th[1].all_files[k][2]) = "junk"
          /\ Contains(th[1].all_files[k][2], <<".","j","p","g">>)
    /\ \E k \in 1..Len(th[1].all_files) :
          EndsWith(th[1].all_files[k][2], <<".","J","P","G">>)

(***************************************************************************)
(* Claims about run_photo_scan called with a root that is no directory.    *)
(***************************************************************************)
\* thread t takes the step that calls run_photo_scan on a path that is not
\* a directory of the file system
CallsWithInvalidRoot(t) ==
    /\ th[t].pc \in {"idle", "returned", "raised"}
    /\ th'[t] # th[t]
    /\ th'[t].scan_path \notin DOMAIN fs

\* C12: a call of run_photo_scan with a root that is not a directory logs
\* the problem and returns in that one step; the catalog file and the
\* history file are unchanged, no directory is visited, no file is listed
\* and no progress value is emitted.
C12_InvalidRootTouchesNothing ==
    [][\A t \in Threads :
          CallsWithInvalidRoot(t) =>
              /\ th'[t].pc = "returned"
              /\ log' = Append(log, "Invalid directory path. Please try again.")
              /\ catalog_file' = catalog_file
              /\ history_file' = history_file
              /\ fs' = fs
              /\ th'[t].visited = <<>>
              /\ th'[t].all_files = <<>>
              /\ th'[t].progress = <<>>]_vars

\* a call with an invalid root has returned after a completed scan, with a
\* catalog and a history on disk
C12_Witness ==
    /\ Len(runs) = 2
    /\ runs[1].outcome = "ok"
    /\ runs[2].outcome = "invalid"
    /\ th[1].pc = "returned"
    /\ th[1].scan_path \notin DOMAIN fs
    /\ catalog_file.kind = "object"
    /\ history_file.kind = "array"
    /\ log[Len(log)] = "Invalid directory path. Please try again."

(***************************************************************************)
(* Claims about build_target_encodings.                                    *)
(***************************************************************************)
\* the target can be read and shows a face
Usable(photo) == photo.readable /\ photo.faces # <<>>

\* the first face of every usable target among the first n, in input order
RECURSIVE FirstFaces(_, _)
FirstFaces(targets, n) ==
    IF n = 0 THEN <<>>
    ELSE FirstFaces(targets, n - 1) \o
         (IF Usable(targets[n]) THEN <<targets[n].faces[1]>> ELSE <<>>)

\* the line build_target_encodings logs for a target
TargetLine(photo) ==
    IF ~photo.readable THEN "[FaceMatch] Error loading target"
    ELSE IF photo.faces = <<>> THEN "[FaceMatch] No face found in target image"
    ELSE "[FaceMatch] Loaded target face"

\* C13: after i targets build_target_encodings holds one encoding per
\* readable target with a face among them, its first face, in input order;
\* a target without a face and a target that cannot be loaded are logged and
\* skipped and the loop goes on; the list it returns is the one of all
\* targets.
C13_OneEncodingPerTarget ==
    /\ fm.pc = "idle" \/
          /\ fm.encs = FirstFaces(fm.targets, fm.i)
          /\ Len(fm.log) >= fm.i
          /\ \A k \in 1..fm.i : fm.log[k] = TargetLine(fm.targets[k])
          /\ fm.pc # "build" => fm.i = Len(fm.targets)

\* build_target_encodings has returned 2 encodings for two targets with a
\* face, one of them with two faces, and one target without a face, with
\* one line for the skipped target
C13_Witness ==
    /\ fm.pc = "gather"
    /\ Len(fm.targets) = 3
    /\ Cardinality({k \in 1..3 : Usable(fm.targets[k])}) = 2
    /\ \E k \in 1..3 : fm.targets[k].readable /\ fm.targets[k].faces = <<>>
    /\ \E k \in 1..3 : Len(fm.targets[k].faces) = 2
    /\ Len(fm.encs) = 2
    /\ Cardinality({k \in 1..Len(fm.log) :
                       fm.log[k] = "[FaceMatch] No face found in target image"}) = 1

(***************************************************************************)
(* Claims about the scan history.                                          *)
(***************************************************************************)
\* the records of the history as a scan finds them: none in a missing or
\* unparsable file
PreviousRecords(file) == IF file.kind = "array" THEN file.records ELSE <<>>

\* the record of the scan thread t has made
NewRecord(t) ==
    [scan_path |-> th[t].scan_path,
     num_images |-> Len(th[t].found_images),
     num_videos |-> Len(th[t].found_videos)]

\* the catalog on disk is the one thread t has merged
CatalogPersisted(t) ==
    /\ catalog_file.kind = "object"
    /\ catalog_file.images = List(th[t].merged_images)
    /\ catalog_file.videos = List(th[t].merged_videos)

\* the history file changes only while a scan is rewriting it
HistoryWrittenByLogScanOnly ==
    history_file' # history_file =>
        \E t \in Threads : th[t].pc \in {"history_open", "history_dump"} /\ th'[t] # th[t]

\* C14: a scan that completes rewrites the history file as the records it
\* held before, unaltered and in order, followed by one record of that scan:
\* the list is made of the file as it is once the catalog is persisted, the
\* file does not change from there to the rewrite, and the rewrite stores
\* that list; nothing else writes the history.
C14_HistoryAppendOnly ==
    [][/\ HistoryWrittenByLogScanOnly
       /\ \A t \in Threads :
            /\ (th[t].pc = "log_scan" /\ th'[t].pc = "history_open") =>
                  /\ CatalogPersisted(t)
                  /\ th'[t].history = PreviousRecords(history_file) \o <<NewRecord(t)>>
            /\ th[t].pc = "history_open" =>
                  /\ CatalogPersisted(t)
                  /\ th[t].history = PreviousRecords(history_file) \o <<NewRecord(t)>>
            /\ (th[t].pc = "history_open" /\ th'[t] # th[t]) =>
                  /\ th'[t].pc = "history_dump"
                  /\ th'[t].history = th[t].history
                  /\ catalog_file' = catalog_file
            /\ (th[t].pc = "history_dump" /\ th'[t] # th[t]) =>
                  /\ th'[t].pc = "returned"
                  /\ history_file' = [kind |-> "array", records |-> th[t].history]
                  /\ catalog_file' = catalog_file]_vars

\* two scans have completed on a history that held one record: the file
\* holds that record and then the records of the two scans
C14_Witness ==
    /\ Len(runs) = 2
    /\ runs[1].outcome = "ok"
    /\ runs[2].outcome = "ok"
    /\ th[1].pc = "returned"
    /\ history_file.kind = "array"
    /\ Len(history_file.records) = 3
    /\ history_file.records[1] = log_data(<<"/","o">>, OldImages, OldVideos)
    /\ history_file.records[2].scan_path = runs[1].path
    /\ history_file.records[3].scan_path = runs[2].path
    /\ runs[1].path # runs[2].path

(***************************************************************************)
(* Claims about the two lists of the catalog.                              *)
(***************************************************************************)
\* the paths of a list of the catalog file; none when it is no list
PathsOf(value) == IF value.t = "list" THEN ToSet(value.v) ELSE {}

\* C15: in every state of a sequence of run_photo_scan calls, each loading
\* and merging the catalog the calls before it left, no path is in both the
\* images and the videos of the catalog file.
C15_ImagesVideosDisjoint ==
    PathsOf(catalog_file.images) \cap PathsOf(catalog_file.videos) = {}

\* two scans over different roots have completed on a catalog that held
\* images and videos; the catalog holds former and found paths in both lists
C15_Witness ==
    /\ Len(runs) = 2
    /\ runs[1].outcome = "ok"
    /\ runs[2].outcome = "ok"
    /\ runs[1].path # runs[2].path
    /\ th[1].pc = "returned"
    /\ catalog_file.kind = "object"
    /\ ToSet(OldImages) \subseteq PathsOf(catalog_file.images)
    /\ ToSet(OldVideos) \subseteq PathsOf(catalog_file.videos)
    /\ PathsOf(catalog_file.images) \ ToSet(OldImages) # {}
    /\ PathsOf(catalog_file.videos) \ ToSet(OldVideos) # {}

=============================================================================
